---- MODULE Spec2Model ----
(***************************************************************************)
(* Model of src/src/llvm/mod.rs of bpf-linker: module acquisition          *)
(* (find_embedded_bitcode, link_bitcode_buffer, link_ir_buffer), the       *)
(* visibility pass and pass pipeline of optimize(), and the fatal-error    *)
(* callback.  The LLVM C API is the external backend: each backend call is *)
(* modelled by its contract (return value, out-parameters, ownership).     *)
(***************************************************************************)
EXTENDS Integers, Sequences, FiniteSets, TLC

VARIABLES
    pc,                  \* position of the run: stage, or step inside optimize()
    proc,                \* "running", "exited" (backend fatal error), "aborted" (crash)
    image,               \* the module's symbols, in enumeration order
    asm,                 \* module-level inline asm as LLVMGetModuleInlineAsm returns it
    export_symbols,      \* optimize() argument
    ignore_inline_never, \* optimize() argument
    opt_level,           \* optimize() argument
    idx,                 \* cursor of the symbol loops of optimize()
    pre,                 \* image and asm at the call of optimize()
    passes,              \* pipeline string handed to LLVMRunPasses
    ret,                 \* return value of the operation that ran last
    call,                \* what the operation that ran last was given and met
    trace,               \* acquire/release events of the operation that ran last
    log,                 \* error! records written so far
    pending,             \* number of inputs still to link
    debug_info,          \* whether the module carries debug metadata
    output               \* whether an artifact was emitted

vars == <<pc, proc, image, asm, export_symbols, ignore_inline_never, opt_level,
          idx, pre, passes, ret, call, trace, log, pending, debug_info, output>>

-----------------------------------------------------------------------------
(* Bounds of the model *)

MaxSyms == 1
MaxPad == 1
MaxSections == 2
MaxInputs == 2

-----------------------------------------------------------------------------
(* Byte strings, slices and sets as the code uses them *)

\* <[u8]>::starts_with
starts_with(s, prefix) ==
    Len(s) >= Len(prefix) /\ SubSeq(s, 1, Len(prefix)) = prefix

\* mutant: HashSet::contains replaced by a prefix match against the exported names
contains_prefix(set, name) ==
    \E e \in set : starts_with(e, name) \/ starts_with(name, e)

\* HashSet::contains: exact match on the byte string
contains(set, name) == name \in set

\* slice::windows(n): every contiguous subslice of length n (n > 0)
windows(haystack, n) ==
    { SubSeq(haystack, i, i + n - 1) : i \in 1..(Len(haystack) - n + 1) }

needle == "__rust_probestack"

IntrinsicPrefix == "llvm."

-----------------------------------------------------------------------------
(* Symbols of the module *)

\* names that are exported, a prefix of it, an extension of it, and an intrinsic
NamePool == {"foo", "fo", "foo_", "llvm.x"}
ExportPool == {"foo", "llvm.x"}

Global(n, l, v, d) ==
    [kind |-> "global", name |-> n, linkage |-> l, visibility |-> v,
     blocks |-> 0, defined |-> d, noinline |-> FALSE]
Alias(n, l, v) ==
    [kind |-> "alias", name |-> n, linkage |-> l, visibility |-> v,
     blocks |-> 0, defined |-> TRUE, noinline |-> FALSE]
Function(n, l, v, b, a) ==
    [kind |-> "function", name |-> n, linkage |-> l, visibility |-> v,
     blocks |-> b, defined |-> (b > 0), noinline |-> a]

\* linkage and visibility a symbol comes with
Looks == { <<"external", "default">>, <<"external", "hidden">>, <<"weak", "default">> }

SymPool ==
    { Global(n, lv[1], lv[2], d) : n \in NamePool, lv \in Looks, d \in BOOLEAN }
    \cup { Alias(n, lv[1], lv[2]) : n \in NamePool, lv \in Looks }
    \cup UNION { { Function(n, lv[1], lv[2], b, a) : n \in NamePool, lv \in Looks,
                                                    b \in {0, 1} }
                 : a \in BOOLEAN }

\* LLVMGetValueName2 + slice::from_raw_parts
symbol_name(value) == value.name

LLVMIsAFunction(value) == value.kind = "function"
LLVMCountBasicBlocks(value) == value.blocks

\* mutant: the export set is not consulted
internalize_exported_too(value, name, exports) ==
    IF ~starts_with(name, IntrinsicPrefix)
    THEN IF LLVMIsAFunction(value) /\ LLVMCountBasicBlocks(value) = 0
         THEN value
         ELSE [value EXCEPT !.linkage = "internal", !.visibility = "default"]
    ELSE value

\* mutant: the undefined-function exception is dropped
internalize_no_exception(value, name, exports) ==
    IF ~starts_with(name, IntrinsicPrefix) /\ ~contains(exports, name)
    THEN [value EXCEPT !.linkage = "internal", !.visibility = "default"]
    ELSE value

internalize(value, name, exports) ==
    IF ~starts_with(name, IntrinsicPrefix) /\ ~contains(exports, name)
    THEN IF LLVMIsAFunction(value) /\ LLVMCountBasicBlocks(value) = 0
         THEN value   \* "not internalizing undefined function"
         ELSE [value EXCEPT !.linkage = "internal", !.visibility = "default"]
    ELSE value

\* mutant: the attribute is looked up but not removed
remove_attribute_kept(function, name) == function

\* LLVMRemoveEnumAttributeAtIndex(function, LLVMAttributeFunctionIndex, kind("noinline"))
remove_attribute(function, name) ==
    IF name = "noinline" THEN [function EXCEPT !.noinline = FALSE] ELSE function

-----------------------------------------------------------------------------
(* Module inline asm *)

NullAsm == [null |-> TRUE, data |-> ""]
Asm(s) == [null |-> FALSE, data |-> s]

\* mutant: only a blob that starts with the marker is recognised
module_asm_is_probestack_prefix(module_asm) ==
    IF module_asm.null THEN FALSE ELSE starts_with(module_asm.data, needle)

module_asm_is_probestack(module_asm) ==
    IF module_asm.null
    THEN FALSE
    ELSE \E w \in windows(module_asm.data, Len(needle)) : w = needle

-----------------------------------------------------------------------------
(* Pass pipeline *)

OptLevels == {"No", "Less", "Default", "Aggressive", "Size", "SizeMin"}

\* [&str]::join
RECURSIVE join(_, _)
join(strs, sep) ==
    IF Len(strs) = 0 THEN ""
    ELSE IF Len(strs) = 1 THEN strs[1]
    ELSE strs[1] \o sep \o join(Tail(strs), sep)

default_pipeline(level) ==
    CASE level \in {"No", "Less"} -> "default<O1>"
      [] level = "Default" -> "default<O2>"
      [] level = "Aggressive" -> "default<O3>"
      [] level = "Size" -> "default<Os>"
      [] level = "SizeMin" -> "default<Oz>"

\* mutant: level none is given its own pipeline and dce is left out
pipeline_no_dce(level) ==
    IF level = "No" THEN "default<O0>" ELSE join(<<default_pipeline(level)>>, ",")

pipeline(level) == join(<<default_pipeline(level), "dce">>, ",")

-----------------------------------------------------------------------------
(* Messages of the backend: C strings, as bytes *)

Replacement == <<239, 191, 189>>       \* U+FFFD in UTF-8
NullText == <<60, 110, 117, 108, 108, 62>>   \* "<null>"

\* bytes the backend's messages are drawn from: ASCII, a two-byte lead, a
\* continuation byte, and a byte no UTF-8 text holds
MessagePool == { <<>>, <<101, 114, 114>>, <<195, 169>>, <<101, 255>>, <<195, 101>> }

\* String::from_utf8_lossy on texts over one- and two-byte sequences: valid
\* sequences are copied, every other byte becomes U+FFFD
RECURSIVE from_utf8_lossy(_)
from_utf8_lossy(bytes) ==
    IF Len(bytes) = 0 THEN <<>>
    ELSE IF bytes[1] < 128
         THEN <<bytes[1]>> \o from_utf8_lossy(Tail(bytes))
    ELSE IF bytes[1] \in 194..223 /\ Len(bytes) >= 2 /\ bytes[2] \in 128..191
         THEN <<bytes[1], bytes[2]>> \o from_utf8_lossy(SubSeq(bytes, 3, Len(bytes)))
    ELSE Replacement \o from_utf8_lossy(Tail(bytes))

\* texts of a failed pass run: the pass builder's complaint about the pipeline
\* string, which is text
PassErrorPool == { <<>>, <<101, 114, 114>>, <<195, 169>> }

NullMessage == [null |-> TRUE, bytes |-> <<>>]
Msg(b) == [null |-> FALSE, bytes |-> b]

\* Message::as_string_lossy
as_string_lossy(message) ==
    IF message.null THEN NullText ELSE from_utf8_lossy(message.bytes)

\* mutant: the error text is dropped
error_string_empty(error_message) == <<>>

\* CStr::from_ptr(error_message).to_string_lossy().to_string()
error_string(error_message) == from_utf8_lossy(error_message)

Ok(v) == [tag |-> "Ok", val |-> v]
Err(m) == [tag |-> "Err", msg |-> m]
NoRet == [tag |-> "none"]
Unit == <<>>

\* resource events of one operation
Acquire(r) == <<"acquire", r>>
Release(r) == <<"release", r>>

-----------------------------------------------------------------------------
(* optimize() *)

Min(S) == CHOOSE x \in S : \A y \in S : x <= y

\* module.globals_iter() / global_aliases_iter() / functions_iter(): the next
\* symbol of the kind at or after position from, 0 when the iterator is at its end
NextOfKind(img, kind, from) ==
    LET S == { i \in from..Len(img) : img[i].kind = kind }
    IN IF S = {} THEN 0 ELSE Min(S)

\* where optimize() continues: the three loops in order, then the pass pipeline
Cursor(img, phase, from) ==
    LET g == NextOfKind(img, "global", from)
        a == NextOfKind(img, "alias", IF phase = "aliases" THEN from ELSE 1)
        f == NextOfKind(img, "function", IF phase = "functions" THEN from ELSE 1)
    IN IF phase = "globals" /\ g # 0 THEN <<"globals", g>>
       ELSE IF phase \in {"globals", "aliases"} /\ a # 0 THEN <<"aliases", a>>
       ELSE IF f # 0 THEN <<"functions", f>>
       ELSE <<"passes", 0>>

\* lines 242-244: LLVMSetModuleInlineAsm2(module, null, 0) when the probe is found
SanitizedAsm(module_asm) ==
    IF module_asm_is_probestack(module_asm) THEN Asm("") ELSE module_asm

OptimizeBegin ==
    /\ proc = "running" /\ pc = "optimize"
    /\ pre' = [image |-> image, asm |-> asm]
    /\ asm' = SanitizedAsm(asm)
    /\ LET c == Cursor(image, "globals", 1) IN pc' = c[1] /\ idx' = c[2]
    /\ call' = [op |-> "optimize"]
    /\ trace' = <<>>
    /\ ret' = NoRet
    /\ passes' = ""
    /\ UNCHANGED <<proc, image, export_symbols, ignore_inline_never, opt_level,
                   log, pending, debug_info, output>>

\* lines 246-248, one iteration
InternalizeGlobal ==
    /\ proc = "running" /\ pc = "globals"
    /\ image' = [image EXCEPT
                   ![idx] = internalize(@, symbol_name(@), export_symbols)]
    /\ LET c == Cursor(image, "globals", idx + 1) IN pc' = c[1] /\ idx' = c[2]
    /\ UNCHANGED <<proc, asm, export_symbols, ignore_inline_never, opt_level,
                   pre, passes, ret, call, trace, log, pending, debug_info, output>>

\* lines 249-251, one iteration
InternalizeAlias ==
    /\ proc = "running" /\ pc = "aliases"
    /\ image' = [image EXCEPT
                   ![idx] = internalize(@, symbol_name(@), export_symbols)]
    /\ LET c == Cursor(image, "aliases", idx + 1) IN pc' = c[1] /\ idx' = c[2]
    /\ UNCHANGED <<proc, asm, export_symbols, ignore_inline_never, opt_level,
                   pre, passes, ret, call, trace, log, pending, debug_info, output>>

\* lines 253-258: the name test and the removal of noinline
FunctionAttributes ==
    /\ proc = "running" /\ pc = "functions"
    /\ LET name == symbol_name(image[idx])
           c == Cursor(image, "functions", idx + 1)
       IN IF ~starts_with(name, IntrinsicPrefix)
          THEN /\ image' = IF ignore_inline_never
                           THEN [image EXCEPT ![idx] = remove_attribute(@, "noinline")]
                           ELSE image
               /\ pc' = "fn_internalize"
               /\ idx' = idx
          ELSE /\ image' = image
               /\ pc' = c[1]
               /\ idx' = c[2]
    /\ UNCHANGED <<proc, asm, export_symbols, ignore_inline_never, opt_level,
                   pre, passes, ret, call, trace, log, pending, debug_info, output>>

\* line 259
InternalizeFunction ==
    /\ proc = "running" /\ pc = "fn_internalize"
    /\ image' = [image EXCEPT
                   ![idx] = internalize(@, symbol_name(@), export_symbols)]
    /\ LET c == Cursor(image, "functions", idx + 1) IN pc' = c[1] /\ idx' = c[2]
    /\ UNCHANGED <<proc, asm, export_symbols, ignore_inline_never, opt_level,
                   pre, passes, ret, call, trace, log, pending, debug_info, output>>

\* where the run goes after optimize() returned
AfterOptimize(r) == IF r.tag = "Err" THEN "failed" ELSE "strip"

\* the subsequence of img without the positions in drop
Without(img, drop) ==
    LET keep == { i \in 1..Len(img) : i \notin drop }
        RECURSIVE build(_)
        build(i) == IF i > Len(img) THEN <<>>
                    ELSE IF i \in keep THEN <<img[i]>> \o build(i + 1)
                    ELSE build(i + 1)
    IN build(1)

\* what a successful pass run may leave of the module: dead-code elimination
\* drops internal symbols nothing refers to
PassResults(img) ==
    { Without(img, d) : d \in SUBSET { i \in 1..Len(img) : img[i].linkage = "internal" } }

\* lines 263-300: the pass run and its outcome
RunPasses ==
    /\ proc = "running" /\ pc = "passes"
    /\ passes' = pipeline(opt_level)
    /\ \/ /\ image' \in PassResults(image)          \* LLVMRunPasses returned null
          /\ ret' = Ok(Unit)
          /\ call' = [op |-> "optimize", failed |-> FALSE, message |-> <<>>]
          /\ trace' = <<Acquire("options"), Release("options")>>
       \/ \E m \in PassErrorPool :                   \* LLVMRunPasses returned an error
          /\ image' = image
          /\ ret' = Err(error_string(m))
          /\ call' = [op |-> "optimize", failed |-> TRUE, message |-> m]
          /\ trace' = <<Acquire("options"), Acquire("error"), Release("options"),
                        Release("error"), Acquire("error_message"),
                        Release("error_message")>>
    /\ pc' = AfterOptimize(ret')
    /\ idx' = 0
    /\ UNCHANGED <<proc, asm, export_symbols, ignore_inline_never, opt_level,
                   pre, log, pending, debug_info, output>>

-----------------------------------------------------------------------------
(* The backend's parsers and linker, by their contract *)

NullModule == [null |-> TRUE, syms |-> <<>>, di |-> FALSE]
Module(syms, di) == [null |-> FALSE, syms |-> syms, di |-> di]

IRPool == { "define @foo", "@fo = hidden global", "This is not valid LLVM IR" }
BitcodePool == { "BC define @foo", "BC declare @foo_", "junk" }

\* the fragment a buffer parses into, NullModule when it does not parse
Fragment(buffer) ==
    CASE buffer \in {"define @foo", "BC define @foo"} ->
             Module(<<Function("foo", "external", "default", 1, TRUE)>>, FALSE)
      [] buffer = "@fo = hidden global" ->
             Module(<<Global("fo", "external", "hidden", TRUE)>>, FALSE)
      [] buffer = "BC declare @foo_" ->
             Module(<<Function("foo_", "external", "default", 0, FALSE)>>, TRUE)
      [] OTHER -> NullModule

\* LLVMParseIRInContext: 0 and a module, or 1, no module and a message; the
\* memory buffer is consumed by the call either way
LLVMParseIRInContext(buffer) ==
    IF Fragment(buffer).null
    THEN { [rc |-> 1, module |-> NullModule, message |-> Msg(m)] : m \in MessagePool }
    ELSE { [rc |-> 0, module |-> Fragment(buffer), message |-> NullMessage] }

\* LLVMParseBitcodeInContext2: 0 and a module, or 1 and no module; the memory
\* buffer stays the caller's
LLVMParseBitcodeInContext2(buffer) ==
    IF Fragment(buffer).null
    THEN [rc |-> 1, module |-> NullModule]
    ELSE [rc |-> 0, module |-> Fragment(buffer)]

Names(syms) == { syms[i].name : i \in 1..Len(syms) }

\* LLVMLinkModules2: 0 when the source was merged, 1 when a definition of the
\* source collides with one of the destination; the source is destroyed
LLVMLinkModules2(dest, src) ==
    IF Names(dest) \cap Names(src.syms) = {}
    THEN [rc |-> 0, image |-> dest \o src.syms]
    ELSE [rc |-> 1, image |-> dest]

\* lines 150-192; parsed is what LLVMParseIRInContext answered
link_ir_buffer(img, buffer, parsed) ==
    LET ok == parsed.rc = 0
        merge == ok /\ ~parsed.module.null
        merged == LLVMLinkModules2(img, parsed.module)
    IN [linked |-> IF merge THEN merged.rc = 0 ELSE FALSE,
        image |-> IF merge THEN merged.image ELSE img,
        di |-> merge /\ merged.rc = 0 /\ parsed.module.di,
        merges |-> IF merge THEN 1 ELSE 0,
        log |-> IF ok
                THEN IF parsed.module.null
                     THEN {"IR parsing succeeded but module is null"}
                     ELSE {}
                ELSE IF ~parsed.message.null
                     THEN {"failed to parse IR"}
                     ELSE {"failed to parse IR: unknown error"},
        trace |->
            <<Acquire("buffer")>>
            \o (IF ~parsed.module.null THEN <<Acquire("temp_module")>> ELSE <<>>)
            \o (IF ~parsed.message.null THEN <<Acquire("error_msg")>> ELSE <<>>)
            \o <<Release("buffer")>>                 \* consumed by the parser
            \o (IF merge THEN <<Release("temp_module")>> ELSE <<>>)   \* by the linker
            \o (IF ~ok /\ ~parsed.message.null THEN <<Release("error_msg")>> ELSE <<>>)
            \o (IF ~ok /\ ~parsed.module.null THEN <<Release("temp_module")>> ELSE <<>>)
            \o <<Release("buffer")>>]                \* LLVMDisposeMemoryBuffer, line 189

\* lines 122-148; parsed is what LLVMParseBitcodeInContext2 answered
link_bitcode_buffer(img, buffer, parsed) ==
    LET ok == parsed.rc = 0
        merged == LLVMLinkModules2(img, parsed.module)
    IN [linked |-> IF ok THEN merged.rc = 0 ELSE FALSE,
        image |-> IF ok THEN merged.image ELSE img,
        di |-> ok /\ merged.rc = 0 /\ parsed.module.di,
        merges |-> IF ok THEN 1 ELSE 0,
        log |-> {},
        trace |->
            <<Acquire("buffer")>>
            \o (IF ok THEN <<Acquire("temp_module"), Release("temp_module")>> ELSE <<>>)
            \o <<Release("buffer")>>]

-----------------------------------------------------------------------------
(* Object files *)

NullName == [null |-> TRUE, str |-> ""]
CName(s) == [null |-> FALSE, str |-> s]

SectionNames == { NullName, CName(".llvmbc"), CName(".llvmbc_"), CName(".text") }
SectionPool == { [name |-> n, contents |-> c] :
                    n \in SectionNames, c \in {"BC define @foo", "junk"} }

RECURSIVE SeqsUpTo(_, _)
SeqsUpTo(S, n) ==
    IF n = 0 THEN { <<>> }
    ELSE SeqsUpTo(S, n - 1)
         \cup { Append(q, x) : q \in { r \in SeqsUpTo(S, n - 1) : Len(r) = n - 1 }, x \in S }

\* a buffer LLVMCreateBinary opens, with its sections, or one it rejects
ObjectPool ==
    { [binary |-> TRUE, sections |-> q] : q \in SeqsUpTo(SectionPool, MaxSections) }
    \cup { [binary |-> FALSE, sections |-> <<>>] }

\* mutant: the last matching section is taken instead of the first
find_section_last(sections, i) ==
    LET S == { j \in 1..Len(sections) :
                 ~sections[j].name.null /\ sections[j].name.str = ".llvmbc" }
    IN IF S = {} THEN [found |-> FALSE, contents |-> ""]
       ELSE [found |-> TRUE, contents |-> sections[CHOOSE j \in S : \A k \in S : k <= j].contents]

\* lines 100-114: the section loop, from section i on
RECURSIVE find_section(_, _)
find_section(sections, i) ==
    IF i > Len(sections)                      \* LLVMObjectFileIsSectionIteratorAtEnd
    THEN [found |-> FALSE, contents |-> ""]
    ELSE IF ~sections[i].name.null /\ sections[i].name.str = ".llvmbc"
         THEN [found |-> TRUE, contents |-> sections[i].contents]
         ELSE find_section(sections, i + 1)   \* LLVMMoveToNextSection

None == [some |-> FALSE, bytes |-> ""]
Some(b) == [some |-> TRUE, bytes |-> b]

\* lines 80-120; message is what LLVMCreateBinary left in its out-parameter
find_embedded_bitcode(data, message) ==
    IF ~data.binary
    THEN [ret |-> Err(as_string_lossy(message)),
          trace |-> <<Acquire("buffer")>>
                    \o (IF ~message.null
                        THEN <<Acquire("message"), Release("message")>> ELSE <<>>)]
    ELSE LET r == find_section(data.sections, 1)
         IN [ret |-> Ok(IF r.found THEN Some(r.contents) ELSE None),
             trace |-> <<Acquire("buffer"), Acquire("binary"), Acquire("iter"),
                         Release("iter"), Release("binary"), Release("buffer")>>]

-----------------------------------------------------------------------------
(* The run: inputs are linked one by one, then the module is optimized,     *)
(* optionally stripped, and emitted                                         *)

\* where the run goes after an input was handled
AfterLink(linked, left) ==
    IF ~linked THEN "failed" ELSE IF left = 0 THEN "optimize" ELSE "link"

Count(events, e) == Cardinality({ i \in 1..Len(events) : events[i] = e })

Resources(events) == { events[i][2] : i \in 1..Len(events) }

\* a resource released more often than it was acquired: a double free
DoubleRelease(events) ==
    \E r \in Resources(events) : Count(events, Release(r)) > Count(events, Acquire(r))

\* what the process does once an operation has run: freeing a buffer twice is
\* undefined, the allocator may abort the process or carry on
ProcessAfter(events) ==
    IF DoubleRelease(events) THEN {"running", "aborted"} ELSE {"running"}

Bool(b) == [tag |-> "bool", val |-> b]

LinkIrBuffer ==
    /\ proc = "running" /\ pc = "link" /\ pending > 0
    /\ \E buffer \in IRPool : \E parsed \in LLVMParseIRInContext(buffer) :
         LET r == link_ir_buffer(image, buffer, parsed)
         IN /\ image' = r.image
            /\ debug_info' = (debug_info \/ r.di)
            /\ log' = log \cup r.log
            /\ trace' = r.trace
            /\ ret' = Bool(r.linked)
            /\ call' = [op |-> "link_ir_buffer", buffer |-> buffer,
                        before |-> image, merges |-> r.merges]
            /\ proc' \in ProcessAfter(r.trace)
            /\ pc' = AfterLink(r.linked, pending - 1)
    /\ pending' = pending - 1
    /\ UNCHANGED <<asm, export_symbols, ignore_inline_never, opt_level, idx, pre,
                   passes, output>>

LinkBitcodeBuffer ==
    /\ proc = "running"
    /\ \/ pc = "link" /\ pending > 0
       \/ pc = "link_embedded"
    /\ \E buffer \in (IF pc = "link_embedded" THEN {ret.val.bytes} ELSE BitcodePool) :
         LET r == link_bitcode_buffer(image, buffer, LLVMParseBitcodeInContext2(buffer))
         IN /\ image' = r.image
            /\ debug_info' = (debug_info \/ r.di)
            /\ log' = log \cup r.log
            /\ trace' = r.trace
            /\ ret' = Bool(r.linked)
            /\ call' = [op |-> "link_bitcode_buffer", buffer |-> buffer,
                        before |-> image, merges |-> r.merges]
            /\ proc' \in ProcessAfter(r.trace)
            /\ pc' = AfterLink(r.linked, pending - 1)
    /\ pending' = pending - 1
    /\ UNCHANGED <<asm, export_symbols, ignore_inline_never, opt_level, idx, pre,
                   passes, output>>

FindEmbeddedBitcode ==
    /\ proc = "running" /\ pc = "link" /\ pending > 0
    /\ \E data \in ObjectPool :
       \E message \in (IF data.binary THEN {NullMessage}
                       ELSE { Msg(m) : m \in MessagePool }) :
         LET r == find_embedded_bitcode(data, message)
             found == r.ret.tag = "Ok" /\ r.ret.val.some
         IN /\ ret' = r.ret
            /\ trace' = r.trace
            /\ call' = [op |-> "find_embedded_bitcode", data |-> data,
                        message |-> message]
            /\ proc' \in ProcessAfter(r.trace)
            /\ pc' = IF found THEN "link_embedded"
                     ELSE AfterLink(r.ret.tag = "Ok", pending - 1)
            /\ pending' = IF found THEN pending ELSE pending - 1
    /\ UNCHANGED <<image, asm, export_symbols, ignore_inline_never, opt_level, idx,
                   pre, passes, log, debug_info, output>>

\* lines 302-305
strip_debug_info(di) == [changed |-> di, di |-> FALSE]

StripDebugInfo ==
    /\ proc = "running" /\ pc = "strip"
    /\ \/ /\ debug_info' = strip_debug_info(debug_info).di
          /\ ret' = Bool(strip_debug_info(debug_info).changed)
          /\ call' = [op |-> "strip_debug_info"]
          /\ trace' = <<>>
       \/ UNCHANGED <<debug_info, ret, call, trace>>      \* stripping was not asked for
    /\ pc' = "emit"
    /\ UNCHANGED <<proc, image, asm, export_symbols, ignore_inline_never, opt_level,
                   idx, pre, passes, log, pending, output>>

\* lines 330-338 and 340-354: rc and message are what the backend answered
emit_result(rc, message) ==
    IF rc = 0 THEN Ok(Unit) ELSE Err(as_string_lossy(message))

EmitOutcomes ==
    { [rc |-> 0, message |-> NullMessage] }
    \cup { [rc |-> 1, message |-> Msg(<<101, 255>>)] }

WriteIr ==
    /\ proc = "running" /\ pc = "emit"
    /\ \E o \in EmitOutcomes :
         /\ ret' = emit_result(o.rc, o.message)
         /\ call' = [op |-> "write_ir", message |-> o.message]
         /\ trace' = IF o.message.null THEN <<>>
                     ELSE <<Acquire("message"), Release("message")>>
         /\ output' = (o.rc = 0)
         /\ pc' = IF o.rc = 0 THEN "done" ELSE "failed"
    /\ UNCHANGED <<proc, image, asm, export_symbols, ignore_inline_never, opt_level,
                   idx, pre, passes, log, pending, debug_info>>

Codegen ==
    /\ proc = "running" /\ pc = "emit"
    /\ \E o \in EmitOutcomes :
         /\ ret' = emit_result(o.rc, o.message)
         /\ call' = [op |-> "codegen", message |-> o.message]
         /\ trace' = IF o.message.null THEN <<>>
                     ELSE <<Acquire("message"), Release("message")>>
         /\ output' = (o.rc = 0)
         /\ pc' = IF o.rc = 0 THEN "done" ELSE "failed"
    /\ UNCHANGED <<proc, image, asm, export_symbols, ignore_inline_never, opt_level,
                   idx, pre, passes, log, pending, debug_info>>

-----------------------------------------------------------------------------
(* Fatal errors of the backend *)

\* stages in which the backend parses, links, runs passes or generates code
BackendStages == {"link", "link_embedded", "passes", "strip", "emit"}

\* mutant: the callback writes nothing
fatal_error_silent(reason) == {}

\* lines 397-399: error!("fatal error: {:?}", reason)
fatal_error(reason) == {"fatal error"}

\* The backend meets a fatal error inside a call: it invokes the installed
\* handler, and when the handler returns it ends the process (exit or abort).
FatalError ==
    /\ proc = "running" /\ pc \in BackendStages
    /\ log' = log \cup fatal_error("LLVM ERROR")
    /\ call' = [op |-> "fatal_error", at |-> pc]
    /\ proc' = "exited"
    /\ UNCHANGED <<pc, image, asm, export_symbols, ignore_inline_never, opt_level,
                   idx, pre, passes, ret, trace, pending, debug_info, output>>

-----------------------------------------------------------------------------
(* Initial states *)

RECURSIVE Pads(_)
Pads(n) ==
    IF n = 0 THEN {""}
    ELSE Pads(n - 1) \cup UNION { { p \o c : c \in {"a", "_"} } : p \in Pads(n - 1) }

\* blobs with the marker, with a near miss of it, and without, at any position
AsmPool ==
    { NullAsm }
    \cup UNION { UNION { { Asm(p \o core \o q) : q \in Pads(MaxPad) } : p \in Pads(MaxPad) }
                 : core \in { needle, "__rust_probestac", "_rust_probestack",
                              "__rust_probestacK", "" } }

\* modules of at most n symbols with distinct names
Images(n) ==
    { q \in SeqsUpTo(SymPool, n) :
        \A i, j \in 1..Len(q) : i # j => q[i].name # q[j].name }

InitCommon ==
    /\ proc = "running"
    /\ idx = 0
    /\ pre = [image |-> <<>>, asm |-> NullAsm]
    /\ passes = ""
    /\ ret = NoRet
    /\ call = [op |-> "none"]
    /\ trace = <<>>
    /\ log = {}
    /\ output = FALSE

\* a run at its start: create_module() made an empty module
InitFresh ==
    /\ pc = "link"
    /\ image = <<>>
    /\ asm = Asm("")
    /\ debug_info = FALSE
    /\ pending \in 1..MaxInputs
    /\ export_symbols = {"foo"}
    /\ ignore_inline_never \in BOOLEAN
    /\ opt_level = "Less"

\* a run whose inputs are linked: any symbols in the module
InitSymbols ==
    /\ pc = "optimize"
    /\ image \in Images(MaxSyms)
    /\ asm = Asm("")
    /\ debug_info = FALSE
    /\ pending = 0
    /\ export_symbols \in SUBSET ExportPool
    /\ ignore_inline_never \in BOOLEAN
    /\ opt_level = "Default"

\* a run whose inputs are linked: any inline asm in the module
InitAsm ==
    /\ pc = "optimize"
    /\ image = <<Function("foo", "external", "default", 1, TRUE),
                 Global("fo", "external", "hidden", TRUE)>>
    /\ asm \in AsmPool
    /\ debug_info \in BOOLEAN
    /\ pending = 0
    /\ export_symbols = {"foo"}
    /\ ignore_inline_never = FALSE
    /\ opt_level \in OptLevels

Init == InitCommon /\ (InitFresh \/ InitSymbols \/ InitAsm)

Next ==
    \/ FindEmbeddedBitcode
    \/ LinkBitcodeBuffer
    \/ LinkIrBuffer
    \/ OptimizeBegin
    \/ InternalizeGlobal
    \/ InternalizeAlias
    \/ FunctionAttributes
    \/ InternalizeFunction
    \/ RunPasses
    \/ StripDebugInfo
    \/ WriteIr
    \/ Codegen
    \/ FatalError

Spec == Init /\ [][Next]_vars

-----------------------------------------------------------------------------
(* Properties *)

\* inside optimize(), between the sanitizer and the pass run
InOptimize == pc \in {"globals", "aliases", "functions", "fn_internalize", "passes"}

\* the three symbol loops of optimize() are done and the passes have not run
AfterVisibility == pc = "passes"

SameLook(a, b) == a.linkage = b.linkage /\ a.visibility = b.visibility

IsIntrinsicName(n) == Len(n) >= 5 /\ SubSeq(n, 1, 5) = "llvm."

ContainsMarker(a) ==
    /\ ~a.null
    /\ \E i \in 1..Len(a.data) :
          i + 16 <= Len(a.data) /\ SubSeq(a.data, i, i + 16) = "__rust_probestack"

IsAscii(bytes) == \A i \in 1..Len(bytes) : bytes[i] < 128

\* C1: a symbol whose name is in the export set has, throughout and after the
\* visibility pass, the linkage and visibility it had when optimize() was called.
C1_ExportedUntouched ==
    InOptimize =>
        /\ Len(image) = Len(pre.image)
        /\ \A i \in 1..Len(image) :
              pre.image[i].name \in export_symbols => SameLook(image[i], pre.image[i])

C1_Witness ==
    /\ AfterVisibility
    /\ \E i \in 1..Len(image) :
          /\ image[i].name \in export_symbols
          /\ ~IsIntrinsicName(image[i].name)
          /\ pre.image[i].linkage = "weak"
          /\ image[i].linkage = "weak"

\* C2: a function without a body whose name is not exported keeps its linkage
\* and visibility through the visibility pass: it is never made internal.
C2_DeclarationUntouched ==
    InOptimize =>
        \A i \in 1..Len(image) :
            ( /\ pre.image[i].kind = "function"
              /\ pre.image[i].blocks = 0
              /\ pre.image[i].name \notin export_symbols )
            => SameLook(image[i], pre.image[i]) /\ image[i].linkage # "internal"

C2_Witness ==
    /\ AfterVisibility
    /\ \E i \in 1..Len(image) :
          /\ image[i].kind = "function" /\ image[i].blocks = 0
          /\ image[i].name = "fo" /\ "foo" \in export_symbols
          /\ image[i].linkage = "external" /\ image[i].visibility = "hidden"

\* C3: after the visibility pass, every symbol whose name is not exactly an
\* exported name, has no "llvm." prefix and, if a function, has a body, is of
\* internal linkage and default visibility; globals and aliases whether
\* defined or not.
C3_Internalized ==
    AfterVisibility =>
        \A i \in 1..Len(image) :
            ( /\ image[i].name \notin export_symbols
              /\ ~IsIntrinsicName(image[i].name)
              /\ (image[i].kind = "function" => image[i].blocks > 0) )
            => image[i].linkage = "internal" /\ image[i].visibility = "default"

C3_Witness ==
    /\ AfterVisibility
    /\ "foo" \in export_symbols
    /\ \E i \in 1..Len(image) :
          /\ image[i].kind = "global" /\ ~image[i].defined
          /\ image[i].name \in {"fo", "foo_"}
          /\ pre.image[i].visibility = "hidden"
          /\ image[i].linkage = "internal" /\ image[i].visibility = "default"

\* C4: once optimize() has looked at the inline asm, the blob is empty if it
\* held "__rust_probestack" at any position and is unchanged otherwise (an
\* absent, empty or too short blob included).
C4_AsmSanitized ==
    InOptimize => asm = IF ContainsMarker(pre.asm) THEN Asm("") ELSE pre.asm

C4_Witness ==
    /\ InOptimize
    /\ pre.asm = Asm("a" \o "__rust_probestack" \o "_")
    /\ asm = Asm("")

\* C5: the pipeline string handed to the backend is the level's default
\* pipeline followed by "dce" and nothing else.
C5_Pipeline ==
    passes # "" =>
        passes = CASE opt_level = "No" -> "default<O1>,dce"
                   [] opt_level = "Less" -> "default<O1>,dce"
                   [] opt_level = "Default" -> "default<O2>,dce"
                   [] opt_level = "Aggressive" -> "default<O3>,dce"
                   [] opt_level = "Size" -> "default<Os>,dce"
                   [] opt_level = "SizeMin" -> "default<Oz>,dce"

C5_Witness == opt_level = "No" /\ passes = "default<O1>,dce"


\* optimize() returned the error of the pass run
OptimizeFailed == call.op = "optimize" /\ ret.tag = "Err"

\* a symbol as the sanitizer and the visibility pass leave it
AfterPass(sym) ==
    LET candidate == /\ sym.name \notin export_symbols
                     /\ ~IsIntrinsicName(sym.name)
                     /\ (sym.kind = "function" => sym.blocks > 0)
        inlinable == /\ sym.kind = "function"
                     /\ ignore_inline_never
                     /\ ~IsIntrinsicName(sym.name)
    IN [sym EXCEPT !.linkage = IF candidate THEN "internal" ELSE @,
                   !.visibility = IF candidate THEN "default" ELSE @,
                   !.noinline = IF inlinable THEN FALSE ELSE @]

\* C6 as stated: when the pass run fails, optimize() returns the backend's
\* message verbatim and the blob, linkage, visibility and attributes of the
\* image are as they were before the call.
C6_AllOrNothing ==
    OptimizeFailed =>
        /\ ret.msg = call.message
        /\ asm = pre.asm
        /\ image = pre.image

\* C6 amended: when the pass run fails, optimize() returns the backend's message
\* decoded lossily as UTF-8 (the message itself when it is ASCII), and the image
\* is as the sanitizer and the visibility pass left it, not as before the call:
\* the blob is cleared if it held the marker, candidates are internal with
\* default visibility, and noinline is removed where the flag asked for it.
C6_FailureKeepsPassEffects ==
    OptimizeFailed =>
        /\ ret.msg = from_utf8_lossy(call.message)
        /\ IsAscii(call.message) => ret.msg = call.message
        /\ asm = IF ContainsMarker(pre.asm) THEN Asm("") ELSE pre.asm
        /\ Len(image) = Len(pre.image)
        /\ \A i \in 1..Len(image) : image[i] = AfterPass(pre.image[i])

C6_Witness ==
    /\ OptimizeFailed
    /\ image # pre.image
    /\ call.message = <<101, 114, 114>>
    /\ ret.msg = <<101, 114, 114>>

\* position of an event in the trace of the last operation
Pos(e) == CHOOSE i \in 1..Len(trace) : trace[i] = e

\* C7 as stated: every resource an operation acquired is released exactly once
\* before it returns, and releases come in reverse order of acquisition.
C7_ReleasedOnceInReverse ==
    /\ \A r \in Resources(trace) :
          Count(trace, Acquire(r)) = 1 /\ Count(trace, Release(r)) = 1
    /\ \A a, b \in Resources(trace) :
          ( /\ Count(trace, Acquire(a)) = 1 /\ Count(trace, Release(a)) = 1
            /\ Count(trace, Acquire(b)) = 1 /\ Count(trace, Release(b)) = 1
            /\ Pos(Acquire(a)) < Pos(Acquire(b)) )
          => Pos(Release(b)) < Pos(Release(a))

\* the fatal-error callback has been invoked
FatalReported == call.op = "fatal_error"

BitcodeSections(sections) ==
    { j \in 1..Len(sections) :
        ~sections[j].name.null /\ sections[j].name.str = ".llvmbc" }

\* C9: find_embedded_bitcode answers Ok(None) for an object without a section
\* named ".llvmbc", Ok(Some(bytes of the first such section)) for one with, and
\* Err(the backend's message) for a buffer the backend cannot open.
C9_FindOutcomes ==
    call.op = "find_embedded_bitcode" =>
        LET d == call.data
            S == BitcodeSections(d.sections)
        IN /\ (d.binary /\ S = {}) => ret = Ok(None)
           /\ (d.binary /\ S # {}) => ret = Ok(Some(d.sections[Min(S)].contents))
           /\ ~d.binary =>
                 /\ ret.tag = "Err"
                 /\ ret.msg = from_utf8_lossy(call.message.bytes)
                 /\ IsAscii(call.message.bytes) => ret.msg = call.message.bytes

C9_Witness ==
    /\ call.op = "find_embedded_bitcode"
    /\ Len(call.data.sections) = 2
    /\ BitcodeSections(call.data.sections) = {1, 2}
    /\ call.data.sections[1].contents # call.data.sections[2].contents
    /\ ret = Ok(Some(call.data.sections[1].contents))

\* C10 as stated: link_ir_buffer and link_bitcode_buffer answer true exactly
\* when the buffer parsed into a fragment and the merge succeeded; for an
\* input that does not parse, the merge is not invoked, the image is
\* unchanged, the answer is false, the process is not aborted and the run
\* ends in failure.
C10_LinkOutcome ==
    call.op \in {"link_ir_buffer", "link_bitcode_buffer"} =>
        LET frag == Fragment(call.buffer)
            mergeable == Names(call.before) \cap Names(frag.syms) = {}
        IN /\ ret.val = (~frag.null /\ mergeable)
           /\ frag.null =>
                 /\ call.merges = 0
                 /\ image = call.before
                 /\ ret.val = FALSE
                 /\ proc # "aborted"
                 /\ pc = "failed"

\* the function the loop of lines 253-261 is at, between its two calls
AtInternalize == pc = "fn_internalize"

\* the symbols of the module that are functions
Functions(img) == { i \in 1..Len(img) : img[i].kind = "function" }

\* C11: with ignore_inline_never set, a function whose name does not begin
\* with "llvm." (exported or not, with a body or not) is without noinline when
\* internalize() is called on it and when the pass pipeline starts, and the
\* step that changes its linkage or visibility finds noinline already gone;
\* the pipeline has not run during the loop. With the flag not set, noinline
\* is on exactly the functions that had it. A function whose name begins with
\* "llvm." is as it was before the call, flag set or not.
C11_NoinlineRemovedFirst ==
    /\ [](InOptimize =>
            /\ Len(image) = Len(pre.image)
            /\ passes = ""
            /\ \A i \in Functions(pre.image) :
                  /\ IsIntrinsicName(pre.image[i].name) => image[i] = pre.image[i]
                  /\ ~ignore_inline_never => image[i].noinline = pre.image[i].noinline
                  /\ ( /\ ignore_inline_never
                       /\ ~IsIntrinsicName(pre.image[i].name)
                       /\ \/ AfterVisibility
                          \/ AtInternalize /\ i = idx )
                     => ~image[i].noinline)
    /\ [][ InOptimize /\ InOptimize' =>
             \A i \in Functions(image) :
                 ( /\ ignore_inline_never
                   /\ ~SameLook(image'[i], image[i]) )
                 => ~image[i].noinline /\ ~image'[i].noinline ]_vars

C11_Witness ==
    /\ AtInternalize
    /\ ignore_inline_never
    /\ image[idx].name \in export_symbols
    /\ image[idx].blocks = 0
    /\ pre.image[idx].noinline
    /\ ~image[idx].noinline
    /\ SameLook(image[idx], pre.image[idx])
    /\ passes = ""

====
